---------------------------- MODULE Spec2Model ----------------------------
(***************************************************************************)
(* A model of the LinkedIn login worker.                                   *)
(*                                                                         *)
(* Two revisions of the worker are modelled side by side, selected by the  *)
(* variable rev:                                                           *)
(*   "part000" : src/unnamed/part_000, lines 1-1306 (challenge classifier, *)
(*               CAPTCHA relay, OTP poll)                                  *)
(*   "worker"  : src/worker.js                                             *)
(* Lines 1-234 (backend helpers, connector) and processAction / main are   *)
(* the same text in both files; the login handler and the page checks      *)
(* differ.                                                                 *)
(*                                                                         *)
(* A page is abstracted to what the code reads of it: the fragments its    *)
(* URL contains, the phrase lists its body text matches, and the elements  *)
(* of the selector lists that are visible.                                 *)
(***************************************************************************)
EXTENDS Naturals, FiniteSets, Sequences, TLC

VARIABLES
    rev,          \* which revision of the worker runs
    pc,           \* position of the (single-threaded) worker
    action,       \* the polled action being processed, or NoAction
    nActions,     \* number of actions polled so far
    browser,      \* processAction's local `browser`: "null", "open", "closed"
    page,         \* the live page of the remote browser
    challenge,    \* the last verdict of the classifier in this attempt
    ctx,          \* call site of the running human-channel wait
    timeout,      \* timeout argument of the running wait, in ms
    polls,        \* iterations of the running wait loop
    error,        \* message of the error being thrown, or "none"
    pendingCode,  \* external store: the agent's pending 2FA code
    screenshot,   \* external store: the agent's published CAPTCHA screenshot
    loginState,   \* external store: last loginState delivered for the agent
    notified,     \* loginState of the last status notification sent for this
                  \* action, delivered or not; "none" before the first
    op,           \* the page operation performed by the last step
    credTypes,    \* typeHuman calls on the credential fields, this action
    signIns,      \* sign-in clicks, this action
    cookieOk,     \* cookie injection was verified in this attempt
    otpFetched,   \* the OTP poll of this attempt received a pending code
    otpClears,    \* clearAgent2FACode calls of the running OTP poll
    shotPublished, \* the CAPTCHA relay of this attempt published an image
    extracts,     \* extractSessionAndComplete calls, this action
    attempt,      \* startGoLoginProfile's loop variable, 0 outside of it
    lastError,    \* startGoLoginProfile's lastError: the patterns it matches
    delay,        \* the backoff wait in progress in ms, 0 if none
    jar,          \* the cookies the extraction read from the browser context
    validation,   \* result of the last validateFullSession call
    reports,      \* the reportResult calls made for this action, in order
    otpTyped,     \* the running OTP poll has typed the pending code record
    shutdown      \* the signal handler: "running", "offline_sent", "exited"

vars == <<rev, pc, action, nActions, browser, page, challenge, ctx, timeout,
          polls, error, pendingCode, screenshot, loginState, notified, op,
          credTypes,
          signIns, cookieOk, otpFetched, otpClears, shotPublished, extracts,
          attempt, lastError, delay, jar, validation, reports, otpTyped,
          shutdown>>

----------------------------------------------------------------------------
(* Bounds of the model *)

\* iterations a polling loop may make before its timeout has elapsed
MaxPolls == 2

\* actions the coordination backend hands out in one run
MaxActions == 2

----------------------------------------------------------------------------
(* Pages *)

\* What the code tests of page.url() with includes():
\*   "feed"       contains /feed or /mynetwork
\*   "messaging"  contains /messaging
\*   "in"         contains /in/ (a profile page)
\*   "login"      contains /login
\*   "checkpoint" contains checkpoint (LinkedIn: /checkpoint/challenge/...)
\*   "challenge"  contains challenge but not checkpoint
\*   "two-step"   contains two-step only
\*   "other"      none of these
Urls == {"feed", "messaging", "in", "login", "checkpoint", "challenge",
         "two-step", "other"}

\* Phrase lists of the classifier; a marker stands for "the body text contains
\* a phrase of that list".  "phone" and "email" are the words the method
\* inference looks for.
Markers == {"captcha", "invalid", "locked", "app", "otp", "auth", "confirm",
            "phone", "email"}

\* Elements the selector lists look for.  "pinInput" is input[name="pin"]
\* (first entry of every code-input list), "textInput" an input[type="text"]
\* that matches no other code-input selector.
Elements == {"captchaIframe", "pinInput", "textInput", "submitButton",
             "approveButton", "sendButton", "profileMarker", "errorBanner"}

Page(u, t, v) == [url |-> u, text |-> t, visible |-> v]

UrlFeed(u) == u = "feed"
UrlCheckpoint(u) == u = "checkpoint"
UrlChallenge(u) == u \in {"checkpoint", "challenge"}
UrlTwoStep(u) == u = "two-step"

Verdict(t, i, m) == [type |-> t, indicator |-> i, method |-> m]

NoVerdict == Verdict("unclassified", "none", "none")

----------------------------------------------------------------------------
(* Challenge classifier, part_000 *)

HasText(p, m) == m \in p.text

IsVisible(p, e) == e \in p.visible

\* the checkpoint test of rule 7: url contains checkpoint, challenge or two-step
OnCheckpointUrl(p) == UrlChallenge(p.url) \/ UrlTwoStep(p.url)

\* method of a text-detected code challenge (line 334)
TextMethod(p) == IF HasText(p, "phone") THEN "sms" ELSE "email"

\* method of a code challenge detected by its input field (lines 373-378)
InputMethod(p) ==
    IF HasText(p, "phone") THEN "sms"
    ELSE IF HasText(p, "email") THEN "email"
    ELSE "unknown"

\* rule 7, on a checkpoint URL (lines 355-392)
CheckpointVerdict(p) ==
    IF IsVisible(p, "pinInput")
    THEN Verdict("email_sms_2fa", "code_input", InputMethod(p))
    ELSE IF IsVisible(p, "approveButton")
    THEN Verdict("app_approval", "approval_button_present", "none")
    ELSE Verdict("unknown_challenge", "generic_checkpoint", "none")

\* rule 8, the generic "Confirm it's you" page (lines 395-406)
SecurityCheckVerdict(p) ==
    IF IsVisible(p, "sendButton")
    THEN Verdict("email_sms_2fa", "security_check_send_code", "unknown")
    ELSE Verdict("unknown_challenge", "generic_security_check", "none")

\* a classifier that looks for the code markers before the CAPTCHA markers
detectChallengeType_OtpFirst(p) ==
    IF HasText(p, "otp")
    THEN Verdict("email_sms_2fa", "otp_text", TextMethod(p))
    ELSE IF HasText(p, "auth")
    THEN Verdict("authenticator_2fa", "auth_text", "none")
    ELSE IF OnCheckpointUrl(p) /\ IsVisible(p, "pinInput")
    THEN CheckpointVerdict(p)
    ELSE IF IsVisible(p, "captchaIframe")
    THEN Verdict("captcha", "captcha_iframe", "none")
    ELSE IF HasText(p, "captcha")
    THEN Verdict("captcha", "captcha_text", "none")
    ELSE IF HasText(p, "invalid")
    THEN Verdict("invalid_credentials", "invalid_text", "none")
    ELSE IF HasText(p, "locked")
    THEN Verdict("account_locked", "locked_text", "none")
    ELSE IF HasText(p, "app")
    THEN Verdict("app_approval", "app_text", "none")
    ELSE IF OnCheckpointUrl(p)
    THEN CheckpointVerdict(p)
    ELSE IF HasText(p, "confirm")
    THEN SecurityCheckVerdict(p)
    ELSE Verdict("none", "none", "none")

\* a classifier that looks for the authenticator phrases before the
\* code-sent phrases
detectChallengeType_AuthFirst(p) ==
    IF IsVisible(p, "captchaIframe")
    THEN Verdict("captcha", "captcha_iframe", "none")
    ELSE IF HasText(p, "captcha")
    THEN Verdict("captcha", "captcha_text", "none")
    ELSE IF HasText(p, "invalid")
    THEN Verdict("invalid_credentials", "invalid_text", "none")
    ELSE IF HasText(p, "locked")
    THEN Verdict("account_locked", "locked_text", "none")
    ELSE IF HasText(p, "app")
    THEN Verdict("app_approval", "app_text", "none")
    ELSE IF HasText(p, "auth")
    THEN Verdict("authenticator_2fa", "auth_text", "none")
    ELSE IF HasText(p, "otp")
    THEN Verdict("email_sms_2fa", "otp_text", TextMethod(p))
    ELSE IF OnCheckpointUrl(p)
    THEN CheckpointVerdict(p)
    ELSE IF HasText(p, "confirm")
    THEN SecurityCheckVerdict(p)
    ELSE Verdict("none", "none", "none")

\* a classifier whose rule 7 leaves out the URL test of line 355
detectChallengeType_NoUrlTest(p) ==
    IF IsVisible(p, "captchaIframe")
    THEN Verdict("captcha", "captcha_iframe", "none")
    ELSE IF HasText(p, "captcha")
    THEN Verdict("captcha", "captcha_text", "none")
    ELSE IF HasText(p, "invalid")
    THEN Verdict("invalid_credentials", "invalid_text", "none")
    ELSE IF HasText(p, "locked")
    THEN Verdict("account_locked", "locked_text", "none")
    ELSE IF HasText(p, "app")
    THEN Verdict("app_approval", "app_text", "none")
    ELSE IF HasText(p, "otp")
    THEN Verdict("email_sms_2fa", "otp_text", TextMethod(p))
    ELSE IF HasText(p, "auth")
    THEN Verdict("authenticator_2fa", "auth_text", "none")
    ELSE CheckpointVerdict(p)

detectChallengeType(p) ==
    IF IsVisible(p, "captchaIframe")
    THEN Verdict("captcha", "captcha_iframe", "none")
    ELSE IF HasText(p, "captcha")
    THEN Verdict("captcha", "captcha_text", "none")
    ELSE IF HasText(p, "invalid")
    THEN Verdict("invalid_credentials", "invalid_text", "none")
    ELSE IF HasText(p, "locked")
    THEN Verdict("account_locked", "locked_text", "none")
    ELSE IF HasText(p, "app")
    THEN Verdict("app_approval", "app_text", "none")
    ELSE IF HasText(p, "otp")
    THEN Verdict("email_sms_2fa", "otp_text", TextMethod(p))
    ELSE IF HasText(p, "auth")
    THEN Verdict("authenticator_2fa", "auth_text", "none")
    ELSE IF OnCheckpointUrl(p)
    THEN CheckpointVerdict(p)
    ELSE IF HasText(p, "confirm")
    THEN SecurityCheckVerdict(p)
    ELSE Verdict("none", "none", "none")

verifyLogin(p) ==
    \/ p.url \in {"feed", "messaging"}
    \/ IsVisible(p, "profileMarker")

\* the "navigated away" test of the waits: /feed, /mynetwork or /in/
NavigatedAway(p) == p.url \in {"feed", "in"}

----------------------------------------------------------------------------
(* Page checks of worker.js *)

\* null ("none") or the failure type
checkLoginFailed_worker(p) ==
    IF HasText(p, "invalid") THEN "invalid_credentials"
    ELSE IF HasText(p, "locked") THEN "account_locked"
    ELSE IF p.url = "login" /\ IsVisible(p, "errorBanner")
    THEN "invalid_credentials"
    ELSE "none"

checkAppApprovalRequired_worker(p) ==
    \/ HasText(p, "app")
    \/ HasText(p, "confirm")
    \/ UrlCheckpoint(p.url) /\ ~IsVisible(p, "pinInput")

check2FARequired_worker(p) ==
    \/ IsVisible(p, "pinInput")
    \/ HasText(p, "otp")

----------------------------------------------------------------------------
(* Session validation, worker.js 312-345 *)

\* !!cookie?.value : the cookie was found and its value is not empty
HasValue(j, c) == j[c] = "value"

\* a validation whose confidence counts the corroborating cookies only
validateFullSession_OthersOnly(j) ==
    IF ~HasValue(j, "li_at")
    THEN [valid |-> FALSE, reason |-> "Missing li_at cookie", confidence |-> 0]
    ELSE [valid |-> TRUE, reason |-> "none",
          confidence |->
              (Cardinality({c \in {"li_a", "JSESSIONID", "bcookie"} :
                               HasValue(j, c)}) * 100) \div 4]

\* validateFullSession on the cookies j of the context.  confidence is the
\* number of true confidenceSignals divided by 4, held here in hundredths
\* (a multiple of 1/4 is exact in the code's floating point).
validateFullSession(j) ==
    IF ~HasValue(j, "li_at")
    THEN [valid |-> FALSE, reason |-> "Missing li_at cookie", confidence |-> 0]
    ELSE [valid |-> TRUE, reason |-> "none",
          confidence |->
              (Cardinality({c \in {"li_at", "li_a", "JSESSIONID", "bcookie"} :
                               HasValue(j, c)}) * 100) \div 4]

----------------------------------------------------------------------------
(* Inputs *)

\* Pages the remote browser shows in the runs of the worker.
LoginForm == {"textInput", "submitButton"}

ScenarioPages == {
    Page("login", {}, LoginForm),
    Page("login", {"invalid"}, LoginForm \cup {"errorBanner"}),
    Page("feed", {}, {"profileMarker"}),
    Page("in", {}, {}),
    Page("other", {}, {"profileMarker"}),
    Page("other", {}, {}),
    Page("other", {"confirm"}, {}),
    Page("checkpoint", {"locked"}, {}),
    Page("checkpoint", {"captcha"}, {"captchaIframe"}),
    Page("checkpoint", {"captcha", "otp"}, {"captchaIframe", "pinInput", "submitButton"}),
    Page("checkpoint", {"app"}, {}),
    Page("checkpoint", {"otp", "email"}, {"pinInput", "submitButton"}),
    Page("checkpoint", {"otp", "phone"}, {}),
    Page("checkpoint", {"otp"}, {"pinInput"}),
    Page("two-step", {"auth"}, {"pinInput", "submitButton"}),
    Page("checkpoint", {}, {}),
    Page("checkpoint", {}, {"approveButton"}) }

BlankPage == Page("other", {}, {})

\* Every page over what the classifier reads.
ClassifierPages ==
    { Page(u, t, v) : u \in Urls, t \in SUBSET Markers,
      v \in SUBSET {"captchaIframe", "pinInput", "approveButton", "sendButton"} }

\* Actions the coordination backend hands out.  type: the action_type
\* ("linkedin_login" stands for both login spellings, "view_profile" for the
\* three scripted actions); profile: gologin_profile.profile_id is set;
\* creds: email and password are both present; cookie: the payload carries a
\* session cookie to restore.
Act(t, pr, cr, ck) == [type |-> t, profile |-> pr, creds |-> cr, cookie |-> ck]

NoAction == Act("null", FALSE, FALSE, FALSE)

Actions ==
    { Act("linkedin_login", pr, cr, ck) : pr, cr, ck \in BOOLEAN }
    \cup { Act("view_profile", pr, FALSE, FALSE) : pr \in BOOLEAN }
    \cup { Act("unknown_type", TRUE, FALSE, FALSE) }

\* values of the agent's pending 2FA code: none, a 6-character code, a code
\* of another length
Codes == {"none", "code6", "short"}

\* What startGoLoginProfile's catch block tests of an error message with
\* includes(): "403" (403 or Forbidden), "404" (404 or not found),
\* "transient" (one of the isRetryable patterns).  A message is the set of
\* the tests it passes; the empty set is an error that matches none.
ErrorPatterns == {"403", "404", "transient"}

ConnectErrors == SUBSET ErrorPatterns

\* lastError before any attempt has failed (undefined)
NoError == {"undefined"}

\* The cookies extraction and validation look up by name.
CookieNames == {"li_at", "li_a", "JSESSIONID", "bcookie"}

\* a cookie is absent, present with an empty value, or present with a value
Jars == [CookieNames -> {"absent", "empty", "value"}]

NoJar == [c \in CookieNames |-> "absent"]

\* The jars the worker's runs draw from: the two cookies the extraction looks
\* up vary, the other two are absent.
ContextJars ==
    { j \in Jars : j["JSESSIONID"] = "absent" /\ j["bcookie"] = "absent"
                    /\ j["li_a"] # "empty" }

\* no validateFullSession call has been made
NoValidation == [valid |-> FALSE, reason |-> "not run", confidence |-> 0]

----------------------------------------------------------------------------
(* Program constants *)

\* startGoLoginProfile(profileId, maxRetries = 3)
MaxRetries == 3

\* waitForCaptchaSolved(page, agentId, 300000)
CaptchaTimeout == 300000

\* pollAndEnter2FACode(page, agentId, 300000)
OtpTimeout == 300000

\* waitFor2FACompletion(page, 120000) of part_000
AppApprovalTimeout == 120000

\* waitFor2FACompletion(page, 300000) of worker.js
WorkerWaitTimeout == 300000

----------------------------------------------------------------------------
(* State *)

job == <<rev, action, nActions>>

wait == <<ctx, timeout, polls>>

store == <<pendingCode, screenshot, loginState, notified>>

hist == <<credTypes, signIns, cookieOk, otpFetched, otpClears, shotPublished,
          extracts>>

conn == <<attempt, lastError, delay>>

sess == <<jar, validation>>

run == <<reports, otpTyped, shutdown>>

\* no action in progress, an external store with nothing pending
IdleWorker ==
    /\ action = NoAction
    /\ nActions = 0
    /\ challenge = NoVerdict
    /\ ctx = "none"
    /\ timeout = 0
    /\ polls = 0
    /\ error = "none"
    /\ pendingCode = "none"
    /\ screenshot = "null"
    /\ loginState = "idle"
    /\ notified = "none"
    /\ op = "none"
    /\ credTypes = 0
    /\ signIns = 0
    /\ cookieOk = FALSE
    /\ otpFetched = FALSE
    /\ otpClears = 0
    /\ shotPublished = FALSE
    /\ extracts = 0
    /\ attempt = 0
    /\ lastError = NoError
    /\ delay = 0
    /\ validation = NoValidation
    /\ reports = <<>>
    /\ otpTyped = FALSE
    /\ shutdown = "running"

\* ... no browser session and no cookies read
Idle ==
    /\ IdleWorker
    /\ browser = "null"
    /\ jar = NoJar

Init ==
    /\ rev \in {"part000", "worker"}
    /\ pc = "main"
    /\ page = BlankPage
    /\ Idle

----------------------------------------------------------------------------
(* Backend helpers (lines 34-109, the same in both revisions) *)

\* updateAgentState: the call is wrapped in try/catch, so a failed delivery
\* leaves the stored state as it was and nothing is thrown.
updateAgentState(s) ==
    /\ loginState' \in {s, loginState}
    /\ notified' = s

\* an error thrown out of the handler reaches processAction's finally block
Throw(msg) ==
    /\ error' = msg
    /\ pc' = "finally"

----------------------------------------------------------------------------
(* main (part_000 1228-1287, worker.js 750-809) *)

MainStart ==
    /\ pc = "main"
    /\ pc' = "poll"
    /\ op' = "none"
    /\ UNCHANGED <<job, run, conn, sess, browser, page, challenge, wait, error,
                   store, hist>>

\* sendHeartbeat('polling'); pollForActions() returned null
MainPollNothing ==
    /\ pc = "poll"
    /\ pc' = "sleep"
    /\ op' = "none"
    /\ UNCHANGED <<job, run, conn, sess, browser, page, challenge, wait, error,
                   store, hist>>

\* pollForActions() returned an action; sendHeartbeat('busy'); processAction
\* is entered with fresh locals.
MainPollAction ==
    /\ pc = "poll"
    /\ nActions < MaxActions
    /\ \E a \in Actions : action' = a
    /\ nActions' = nActions + 1
    /\ pc' = "processAction"
    /\ browser' = "null"
    /\ page' = BlankPage
    /\ challenge' = NoVerdict
    /\ ctx' = "none"
    /\ timeout' = 0
    /\ polls' = 0
    /\ error' = "none"
    /\ op' = "none"
    /\ credTypes' = 0
    /\ signIns' = 0
    /\ cookieOk' = FALSE
    /\ otpFetched' = FALSE
    /\ otpClears' = 0
    /\ shotPublished' = FALSE
    /\ extracts' = 0
    /\ notified' = "none"
    /\ reports' = <<>>
    /\ otpTyped' = FALSE
    /\ UNCHANGED <<rev, pendingCode, screenshot, loginState, conn, sess,
                   shutdown>>

\* reportResult(action.id, 'completed', result)
MainReportCompleted ==
    /\ pc = "report_completed"
    /\ pc' = "sleep"
    /\ op' = "none"
    /\ reports' = Append(reports, "completed")
    /\ UNCHANGED <<job, conn, sess, browser, page, challenge, wait, error,
                   store, hist, otpTyped, shutdown>>

\* a catch block that processes the failed action again
MainCatch_Retry ==
    /\ pc = "catch"
    /\ pc' = "processAction"
    /\ op' = "none"
    /\ error' = "none"
    /\ UNCHANGED <<job, run, conn, sess, browser, page, challenge, wait, store,
                   hist>>

\* a catch block that reports and throws the error on: main() rejects and
\* main().catch ends the process
MainCatch_Rethrow ==
    /\ pc = "catch"
    /\ pc' = "exit"
    /\ op' = "none"
    /\ reports' = Append(reports, "failed")
    /\ UNCHANGED <<job, conn, sess, browser, page, challenge, wait, error,
                   store, hist, otpTyped, shutdown>>

\* catch: reportResult(action.id, 'failed', ...); for a login action
\* updateAgentState(agent, 'failed', ...)
MainCatch ==
    /\ pc = "catch"
    /\ pc' = "sleep"
    /\ op' = "none"
    /\ reports' = Append(reports, "failed")
    /\ IF action.type = "linkedin_login"
       THEN updateAgentState("failed")
       ELSE UNCHANGED <<loginState, notified>>
    /\ UNCHANGED <<job, conn, sess, browser, page, challenge, wait, error,
                   pendingCode, screenshot, hist, otpTyped, shutdown>>

\* the wait before the next poll
MainSleep ==
    /\ pc = "sleep"
    /\ pc' = "poll"
    /\ op' = "none"
    /\ UNCHANGED <<job, run, conn, sess, browser, page, challenge, wait, error,
                   store, hist>>

----------------------------------------------------------------------------
(* Connector (lines 158-233, the same in both revisions) *)

\* a backoff that starts at the base: Math.pow(2, attempt - 1) * 2000
Backoff_FromBase(n) == (2 ^ (n - 1)) * 2000

\* the backoff of line 211: Math.pow(2, attempt) * 2000
Backoff(n) == (2 ^ n) * 2000

\* the message of a connection error that is rethrown as it is
ConnectionError == "connection error"

\* a catch block that retries a transient failure whatever the attempt number
ConnectFailure_Unbounded(e) ==
    /\ lastError' = e
    /\ IF "403" \in e
       THEN Throw("GoLogin profile access denied (403)")
            /\ UNCHANGED <<attempt, delay>>
       ELSE IF "404" \in e
       THEN Throw("GoLogin profile not found (404)")
            /\ UNCHANGED <<attempt, delay>>
       ELSE IF "transient" \in e /\ attempt <= MaxRetries
       THEN /\ delay' = Backoff(attempt)
            /\ pc' = "backoff"
            /\ UNCHANGED <<attempt, error>>
       ELSE Throw(ConnectionError)
            /\ UNCHANGED <<attempt, delay>>

\* a catch block that looks at the transient patterns first
ConnectFailure_RetryFirst(e) ==
    /\ lastError' = e
    /\ IF "transient" \in e /\ attempt < MaxRetries
       THEN /\ delay' = Backoff(attempt)
            /\ pc' = "backoff"
            /\ UNCHANGED <<attempt, error>>
       ELSE IF "403" \in e
       THEN Throw("GoLogin profile access denied (403)")
            /\ UNCHANGED <<attempt, delay>>
       ELSE IF "404" \in e
       THEN Throw("GoLogin profile not found (404)")
            /\ UNCHANGED <<attempt, delay>>
       ELSE Throw(ConnectionError)
            /\ UNCHANGED <<attempt, delay>>

\* a catch block that retries every failure that is not a 403 or a 404
ConnectFailure_RetryUnclassified(e) ==
    /\ lastError' = e
    /\ IF "403" \in e
       THEN Throw("GoLogin profile access denied (403)")
            /\ UNCHANGED <<attempt, delay>>
       ELSE IF "404" \in e
       THEN Throw("GoLogin profile not found (404)")
            /\ UNCHANGED <<attempt, delay>>
       ELSE IF attempt < MaxRetries
       THEN /\ delay' = Backoff(attempt)
            /\ pc' = "backoff"
            /\ UNCHANGED <<attempt, error>>
       ELSE Throw(ConnectionError)
            /\ UNCHANGED <<attempt, delay>>

\* the catch block of startGoLoginProfile for an error e (lines 180-217) and,
\* for a transient failure of the last attempt, the throw after the loop
\* (line 220).  `attempt` stays at the number of the attempt that failed.
ConnectFailure(e) ==
    /\ lastError' = e
    /\ IF "403" \in e
       THEN Throw("GoLogin profile access denied (403)")
            /\ UNCHANGED <<attempt, delay>>
       ELSE IF "404" \in e
       THEN Throw("GoLogin profile not found (404)")
            /\ UNCHANGED <<attempt, delay>>
       ELSE IF "transient" \in e /\ attempt < MaxRetries
       THEN /\ delay' = Backoff(attempt)
            /\ pc' = "backoff"
            /\ UNCHANGED <<attempt, error>>
       ELSE Throw(ConnectionError)
            /\ UNCHANGED <<attempt, delay>>

\* one iteration of the loop: connectOverCDP returns a browser or throws
\* (lines 163-179)
ConnectAttempt ==
    /\ pc = "connect"
    /\ op' = "none"
    /\ \/ /\ browser' = "open"
          /\ pc' = "setup"
          /\ UNCHANGED <<conn, error>>
       \/ /\ \E e \in ConnectErrors : ConnectFailure(e)
          /\ UNCHANGED browser
    /\ UNCHANGED <<job, run, sess, page, challenge, wait, store, hist>>

\* the backoff wait is over and the loop goes on with the next attempt
\* (lines 213, 163)
ConnectBackoff ==
    /\ pc = "backoff"
    /\ attempt' = attempt + 1
    /\ delay' = 0
    /\ pc' = "connect"
    /\ op' = "none"
    /\ UNCHANGED <<job, run, sess, browser, page, challenge, wait, error, store,
                   hist, lastError>>

\* a release without the try/catch around close()
stopGoLoginProfileThrows_NoCatch(b, closeOk) == b # "null" /\ ~closeOk

\* whether stopGoLoginProfile(browser) throws to its caller, closeOk telling
\* whether browser.close() succeeds: close() is called on a non-null handle
\* only, inside try/catch (lines 225-232)
stopGoLoginProfileThrows(b, closeOk) ==
    IF b # "null"
    THEN IF closeOk THEN FALSE ELSE FALSE
    ELSE FALSE

\* a release that forgets to close
stopGoLoginProfile_Leak(b) == b

\* stopGoLoginProfile(browser): close() is invoked on a non-null browser and
\* an error of close() is caught.
stopGoLoginProfile(b) == IF b # "null" THEN "closed" ELSE b

----------------------------------------------------------------------------
(* processAction (part_000 1087-1144, worker.js 609-666) *)

ProcessActionStart ==
    /\ pc = "processAction"
    /\ op' = "none"
    /\ IF ~action.profile
       THEN /\ error' = "No GoLogin profile linked to this agent"
            /\ pc' = "catch"
            /\ UNCHANGED conn
       ELSE /\ attempt' = 1
            /\ pc' = "connect"
            /\ UNCHANGED <<lastError, delay, error>>
    /\ UNCHANGED <<job, run, sess, browser, page, challenge, wait, store, hist>>

\* startGoLoginProfile has returned (its locals are gone): contexts /
\* newContext / newPage / setViewportSize, then the switch
ProcessActionSetup ==
    /\ pc = "setup"
    /\ op' = "none"
    /\ \/ Throw("browser error")
       \/ /\ action.type = "linkedin_login"
          /\ pc' = IF rev = "part000" THEN "login" ELSE "w_login"
          /\ UNCHANGED error
       \/ /\ action.type = "view_profile"
          /\ pc' = "scripted"
          /\ UNCHANGED error
       \/ /\ action.type \notin {"linkedin_login", "view_profile"}
          /\ Throw("Unknown action type")
    /\ attempt' = 0
    /\ lastError' = NoError
    /\ delay' = 0
    /\ UNCHANGED <<job, run, sess, browser, page, challenge, wait, store, hist>>

\* handleViewProfile / handleSendConnection / handleSendMessage
ScriptedHandler ==
    /\ pc = "scripted"
    /\ op' = "goto"
    /\ \E p \in ScenarioPages : page' = p
    /\ \/ Throw("browser error")
       \/ /\ pc' = "finally"
          /\ UNCHANGED error
    /\ UNCHANGED <<job, run, conn, sess, browser, challenge, wait, store, hist>>

\* finally { await stopGoLoginProfile(browser) }, then the return or rethrow;
\* with the connection closed no live page is left.  `op` tells whether
\* close() was called and whether it failed.
ProcessActionFinally ==
    /\ pc = "finally"
    /\ browser' = stopGoLoginProfile(browser)
    /\ \E closeOk \in BOOLEAN :
         /\ IF stopGoLoginProfileThrows(browser, closeOk)
            THEN /\ error' = "close error"
                 /\ pc' = "catch"
            ELSE /\ pc' = IF error = "none"
                          THEN "report_completed" ELSE "catch"
                 /\ UNCHANGED error
         /\ op' = IF browser = "null" THEN "none"
                  ELSE IF closeOk THEN "close" ELSE "close_failed"
    /\ page' = BlankPage
    /\ attempt' = 0
    /\ lastError' = NoError
    /\ delay' = 0
    /\ UNCHANGED <<job, run, sess, challenge, wait, store, hist>>

----------------------------------------------------------------------------
(* handleLinkedInLogin, part_000 831-1081 *)

\* Step 1: updateAgentState('navigating'); Step 2 is taken with a cookie
LoginStart ==
    /\ pc = "login"
    /\ updateAgentState("navigating")
    /\ pc' = IF action.cookie THEN "cookie" ELSE "goto_login"
    /\ op' = "none"
    /\ UNCHANGED <<job, run, conn, sess, browser, page, challenge, wait, error,
                   pendingCode, screenshot, hist>>

\* a cookie restore that goes on to the login form after a verified restore
CookieLogin_ThenCredentials ==
    /\ pc = "cookie"
    /\ \E p \in ScenarioPages : page' = p
    /\ op' = "goto"
    /\ cookieOk' = verifyLogin(page')
    /\ pc' = "enter_credentials"
    /\ UNCHANGED <<job, run, conn, sess, browser, challenge, wait, error, store,
                   credTypes, signIns, otpFetched, otpClears, shotPublished,
                   extracts>>

\* a cookie restore that fails the attempt when the cookie does not verify
CookieLogin_FailFast ==
    /\ pc = "cookie"
    /\ \E p \in ScenarioPages : page' = p
    /\ op' = "goto"
    /\ cookieOk' = verifyLogin(page')
    /\ IF verifyLogin(page')
       THEN pc' = "extract" /\ UNCHANGED error
       ELSE Throw("Cookies invalid or expired")
    /\ UNCHANGED <<job, run, conn, sess, browser, challenge, wait, store,
                   credTypes, signIns, otpFetched, otpClears, shotPublished,
                   extracts>>

\* Step 2: addCookies, goto /feed/, verifyLogin (lines 847-875)
CookieLogin ==
    /\ pc = "cookie"
    /\ \/ /\ Throw("browser error")
          /\ op' = "none"
          /\ UNCHANGED <<page, cookieOk>>
       \/ /\ \E p \in ScenarioPages : page' = p
          /\ op' = "goto"
          /\ cookieOk' = verifyLogin(page')
          /\ pc' = IF verifyLogin(page') THEN "extract" ELSE "goto_login"
          /\ UNCHANGED error
    /\ UNCHANGED <<job, run, conn, sess, browser, challenge, wait, store,
                   credTypes, signIns, otpFetched, otpClears, shotPublished,
                   extracts>>

\* a step 4 without the test of the payload's email and password
GotoLogin_NoCredentialsCheck ==
    /\ pc = "goto_login"
    /\ \E p \in ScenarioPages : page' = p
    /\ op' = "goto"
    /\ IF verifyLogin(page')
       THEN /\ pc' = "extract"
            /\ UNCHANGED <<error, loginState, notified>>
       ELSE /\ updateAgentState("entering_credentials")
            /\ pc' = "enter_credentials"
            /\ UNCHANGED error
    /\ UNCHANGED <<job, run, conn, sess, browser, challenge, wait, pendingCode,
                   screenshot, hist>>

\* Step 3: goto /login, the already-logged-in check and the credentials
\* check of step 4 (lines 877-893)
GotoLogin ==
    /\ pc = "goto_login"
    /\ \/ /\ Throw("browser error")
          /\ op' = "none"
          /\ UNCHANGED <<page, loginState, notified>>
       \/ /\ \E p \in ScenarioPages : page' = p
          /\ op' = "goto"
          /\ IF verifyLogin(page')
             THEN /\ pc' = "extract"
                  /\ UNCHANGED <<error, loginState, notified>>
             ELSE IF ~action.creds
             THEN /\ Throw("Missing email or password for login")
                  /\ UNCHANGED <<loginState, notified>>
             ELSE /\ updateAgentState("entering_credentials")
                  /\ pc' = "enter_credentials"
                  /\ UNCHANGED error
    /\ UNCHANGED <<job, run, conn, sess, browser, challenge, wait, pendingCode,
                   screenshot, hist>>

\* typeHuman(email), typeHuman(password) (part_000 895-901, worker.js 399-407)
EnterCredentials ==
    /\ pc = "enter_credentials"
    /\ \/ /\ Throw("browser error")
          /\ op' = "none"
          /\ UNCHANGED credTypes
       \/ /\ credTypes' = credTypes + 1
          /\ op' = "type"
          /\ pc' = "sign_in"
          /\ UNCHANGED error
    /\ UNCHANGED <<job, run, conn, sess, browser, page, challenge, wait, store,
                   signIns, cookieOk, otpFetched, otpClears, shotPublished,
                   extracts>>

\* clickHuman('button[type="submit"]') and the settle delay
\* (part_000 903-908, worker.js 409-415)
SignIn ==
    /\ pc = "sign_in"
    /\ \/ /\ Throw("browser error")
          /\ op' = "none"
          /\ UNCHANGED <<page, signIns>>
       \/ /\ signIns' = signIns + 1
          /\ op' = "click"
          /\ \E p \in ScenarioPages : page' = p
          /\ pc' = IF rev = "part000" THEN "classify" ELSE "w_check_failed"
          /\ UNCHANGED error
    /\ UNCHANGED <<job, run, conn, sess, browser, challenge, wait, store,
                   credTypes, cookieOk, otpFetched, otpClears, shotPublished,
                   extracts>>

\* a rejection that sends the attempt back to the credential form
RejectVerdict_Retry(state, msg) ==
    /\ updateAgentState(state)
    /\ pc' = "enter_credentials"
    /\ UNCHANGED <<error, wait>>

\* cases 'invalid_credentials' and 'account_locked' (lines 933-943)
RejectVerdict(state, msg) ==
    /\ updateAgentState(state)
    /\ Throw(msg)
    /\ UNCHANGED wait

\* the switch of step 7 on a verdict v (lines 921-1075)
Dispatch(v) ==
    CASE v.type = "none" ->
           /\ IF verifyLogin(page)
              THEN pc' = "extract" /\ UNCHANGED error
              ELSE Throw("Login failed - ended in unknown state")
           /\ UNCHANGED <<wait, loginState, notified>>
      [] v.type = "invalid_credentials" ->
           RejectVerdict("invalid_credentials", "Invalid credentials")
      [] v.type = "account_locked" ->
           RejectVerdict("account_locked", "Account locked")
      [] v.type = "captcha" ->
           /\ pc' = "captcha"
           /\ ctx' = "first"
           /\ timeout' = CaptchaTimeout
           /\ polls' = 0
           /\ UNCHANGED <<error, loginState, notified>>
      [] v.type = "app_approval" ->
           /\ updateAgentState("awaiting_app_approval")
           /\ pc' = "push_wait"
           /\ ctx' = "first"
           /\ timeout' = AppApprovalTimeout
           /\ polls' = 0
           /\ UNCHANGED error
      [] v.type = "email_sms_2fa" ->
           /\ updateAgentState("awaiting_2fa")
           /\ pc' = "otp_poll"
           /\ ctx' = "first"
           /\ timeout' = OtpTimeout
           /\ polls' = 0
           /\ UNCHANGED error
      [] v.type = "authenticator_2fa" ->
           /\ updateAgentState("awaiting_2fa")
           /\ pc' = "otp_poll"
           /\ ctx' = "authenticator"
           /\ timeout' = OtpTimeout
           /\ polls' = 0
           /\ UNCHANGED error
      [] v.type = "unknown_challenge" ->
           /\ updateAgentState("failed")
           /\ Throw("Unknown challenge")
           /\ UNCHANGED wait

\* a handler that submits the form again when no challenge is found and the
\* login does not verify
Classify_NoneResubmits ==
    /\ pc = "classify"
    /\ challenge' = detectChallengeType(page)
    /\ IF challenge'.type = "none" /\ ~verifyLogin(page)
       THEN /\ pc' = "sign_in"
            /\ UNCHANGED <<error, wait, loginState, notified>>
       ELSE Dispatch(challenge')
    /\ op' = "none"
    /\ UNCHANGED <<job, run, conn, sess, browser, page, pendingCode, screenshot,
                   hist>>

\* Step 6 and 7: detectChallengeType, then the switch (lines 910-1075)
Classify ==
    /\ pc = "classify"
    /\ challenge' = detectChallengeType(page)
    /\ Dispatch(challenge')
    /\ op' = "none"
    /\ UNCHANGED <<job, run, conn, sess, browser, page, pendingCode, screenshot,
                   hist>>

----------------------------------------------------------------------------
(* waitForCaptchaSolved, part_000 590-700 *)

\* lines 625-644
CaptchaStillPresent(p) == HasText(p, "captcha") \/ IsVisible(p, "captchaIframe")

\* the two "solved" tests, lines 647 and 658
CaptchaGone(p) ==
    \/ NavigatedAway(p)
    \/ ~CaptchaStillPresent(p) /\ ~UrlChallenge(p.url)

\* callEdgeFunction('worker-update-agent', {captchaScreenshot: null}), not
\* wrapped in try/catch: it clears the stored image, or throws.
ClearScreenshot(next) ==
    \/ /\ screenshot' = "null"
       /\ pc' = next
       /\ UNCHANGED error
    \/ /\ Throw("Edge function worker-update-agent failed")
       /\ UNCHANGED screenshot

\* screenshot and upload inside try/catch (lines 602-616, 670-686)
PublishScreenshot ==
    \/ /\ screenshot' = "image"
       /\ shotPublished' = TRUE
    \/ UNCHANGED <<screenshot, shotPublished>>

\* lines 596-616
CaptchaStart ==
    /\ pc = "captcha"
    /\ updateAgentState("awaiting_captcha")
    /\ PublishScreenshot
    /\ pc' = "captcha_loop"
    /\ op' = "none"
    /\ UNCHANGED <<job, run, conn, sess, browser, page, challenge, wait, error,
                   pendingCode, credTypes, signIns, cookieOk, otpFetched,
                   otpClears, extracts>>

\* a loop without the timeout test of line 618
CaptchaPoll_NoTimeout ==
    /\ pc = "captcha_loop"
    /\ op' = "none"
    /\ IF CaptchaGone(page)
       THEN /\ ClearScreenshot("captcha_true")
            /\ UNCHANGED <<page, polls, shotPublished>>
       ELSE /\ PublishScreenshot
            /\ \E p \in ScenarioPages : page' = p
            /\ UNCHANGED <<pc, error, polls>>
    /\ UNCHANGED <<job, run, conn, sess, browser, challenge, ctx, timeout,
                   pendingCode, loginState, notified, credTypes, signIns,
                   cookieOk,
                   otpFetched, otpClears, extracts>>

\* one iteration of the loop, lines 618-690
CaptchaPoll ==
    /\ pc = "captcha_loop"
    /\ polls < MaxPolls
    /\ op' = "none"
    /\ IF CaptchaGone(page)
       THEN /\ ClearScreenshot("captcha_true")
            /\ UNCHANGED <<page, polls, shotPublished>>
       ELSE /\ PublishScreenshot
            /\ \E p \in ScenarioPages : page' = p
            /\ polls' = polls + 1
            /\ UNCHANGED <<pc, error>>
    /\ UNCHANGED <<job, run, conn, sess, browser, challenge, ctx, timeout,
                   pendingCode, loginState, notified, credTypes, signIns,
                   cookieOk,
                   otpFetched, otpClears, extracts>>

\* a timeout exit that leaves the image in place
CaptchaTimedOut_NoClear ==
    /\ pc = "captcha_loop"
    /\ polls > 0
    /\ op' = "none"
    /\ pc' = "captcha_false"
    /\ UNCHANGED <<job, run, conn, sess, browser, page, challenge, wait, error,
                   store, hist>>

\* the exit after the loop, lines 692-699
CaptchaTimedOut ==
    /\ pc = "captcha_loop"
    /\ polls > 0
    /\ op' = "none"
    /\ ClearScreenshot("captcha_false")
    /\ UNCHANGED <<job, run, conn, sess, browser, page, challenge, wait,
                   pendingCode, loginState, notified, hist>>

\* the follow-up after a solved CAPTCHA (lines 949-996)
PostCaptchaDispatch(v) ==
    IF v.type \in {"email_sms_2fa", "authenticator_2fa"}
    THEN /\ updateAgentState("awaiting_2fa")
         /\ pc' = "otp_poll"
         /\ ctx' = "post_captcha"
         /\ timeout' = OtpTimeout
         /\ polls' = 0
         /\ UNCHANGED error
    ELSE IF v.type = "app_approval"
    THEN /\ updateAgentState("awaiting_app_approval")
         /\ pc' = "push_wait"
         /\ ctx' = "post_captcha"
         /\ timeout' = AppApprovalTimeout
         /\ polls' = 0
         /\ UNCHANGED error
    ELSE /\ Throw("Unknown state after CAPTCHA solved")
         /\ UNCHANGED <<wait, loginState, notified>>

\* case 'captcha' after waitForCaptchaSolved returned true
AfterCaptcha ==
    /\ pc = "captcha_true"
    /\ op' = "none"
    /\ \E p \in ScenarioPages : page' = p
    /\ IF verifyLogin(page')
       THEN /\ pc' = "extract"
            /\ UNCHANGED <<challenge, wait, error, loginState, notified>>
       ELSE /\ challenge' = detectChallengeType(page')
            /\ PostCaptchaDispatch(challenge')
    /\ UNCHANGED <<job, run, conn, sess, browser, pendingCode, screenshot, hist>>

\* case 'captcha' after waitForCaptchaSolved returned false (lines 999-1003)
CaptchaFailed ==
    /\ pc = "captcha_false"
    /\ op' = "none"
    /\ updateAgentState("failed")
    /\ Throw("CAPTCHA timeout")
    /\ UNCHANGED <<job, run, conn, sess, browser, page, challenge, wait,
                   pendingCode, screenshot, hist>>

----------------------------------------------------------------------------
(* waitFor2FACompletion (part_000 442-464, worker.js 517-539) *)

\* the two "completed" tests, lines 449 and 454-457
ApprovalCompleted(p) ==
    \/ NavigatedAway(p)
    \/ ~OnCheckpointUrl(p) /\ verifyLogin(p)

PushPoll ==
    /\ pc = "push_wait"
    /\ polls < MaxPolls
    /\ op' = "none"
    /\ IF ApprovalCompleted(page)
       THEN /\ pc' = "push_true"
            /\ UNCHANGED <<page, polls>>
       ELSE /\ \E p \in ScenarioPages : page' = p
            /\ polls' = polls + 1
            /\ UNCHANGED pc
    /\ UNCHANGED <<job, run, conn, sess, browser, challenge, ctx, timeout, error,
                   store, hist>>

PushTimedOut ==
    /\ pc = "push_wait"
    /\ polls > 0
    /\ op' = "none"
    /\ pc' = "push_false"
    /\ UNCHANGED <<job, run, conn, sess, browser, page, challenge, wait, error,
                   store, hist>>

\* the caller's use of the result: part_000 lines 987-991 and 1012-1018,
\* worker.js lines 439-457
AfterPush ==
    /\ pc \in {"push_true", "push_false"}
    /\ op' = "none"
    /\ CASE ctx = "first" ->
              IF pc = "push_true"
              THEN pc' = "extract" /\ UNCHANGED error
              ELSE Throw("App approval timeout")
         [] ctx = "post_captcha" ->
              IF pc = "push_true"
              THEN pc' = "extract" /\ UNCHANGED error
              ELSE Throw("App approval timeout after CAPTCHA")
         [] ctx = "w_app" ->
              IF pc = "push_true"
              THEN pc' = "w_check_2fa" /\ UNCHANGED error
              ELSE Throw("LinkedIn app approval timed out")
         [] ctx = "w_2fa" ->
              IF pc = "push_true"
              THEN pc' = "w_verify" /\ UNCHANGED error
              ELSE Throw("2FA verification timed out")
    /\ UNCHANGED <<job, run, conn, sess, browser, page, challenge, wait, store,
                   hist>>

----------------------------------------------------------------------------
(* pollAndEnter2FACode and clearAgent2FACode, part_000 467-587 *)

\* a visible element of codeInputSelectors (lines 496-505); the last
\* selector is input[type="text"]
CodeInputVisible(p) == IsVisible(p, "pinInput") \/ IsVisible(p, "textInput")

\* clearAgent2FACode: the backend call is wrapped in try/catch, so the record
\* is cleared, or the failure is logged and the record stays.
clearAgent2FACode ==
    /\ otpClears' = otpClears + 1
    /\ pendingCode' \in {"none", pendingCode}

\* the end of an iteration that did not return: the navigated-away test and
\* the sleep, during which the page may change and the operator may post a
\* new code record (lines 561-568); typed tells whether the pending record
\* has been typed into the page by now
OtpNextPoll(typed) ==
    IF NavigatedAway(page)
    THEN /\ pc' = "otp_true"
         /\ otpTyped' = typed
         /\ UNCHANGED <<page, polls, pendingCode>>
    ELSE /\ \E p \in ScenarioPages : page' = p
         /\ \/ /\ UNCHANGED pendingCode
               /\ otpTyped' = typed
            \/ /\ pendingCode' \in {"code6", "short"}
               /\ otpTyped' = FALSE
         /\ polls' = polls + 1
         /\ UNCHANGED pc

\* one iteration of the loop, lines 473-569
OtpPoll ==
    /\ pc = "otp_poll"
    /\ polls < MaxPolls
    /\ \/ \* the fetch failed, or no 6-character code is pending
          /\ op' = "none"
          /\ UNCHANGED <<otpFetched, otpClears>>
          /\ OtpNextPoll(otpTyped)
       \/ \* a code was received and no input field is visible (line 554)
          /\ pendingCode = "code6"
          /\ ~CodeInputVisible(page)
          /\ otpFetched' = TRUE
          /\ op' = "none"
          /\ UNCHANGED otpClears
          /\ OtpNextPoll(otpTyped)
       \/ \* a code was received; a browser call throws before the code is
          \* entered, or after it (the submit click): caught at line 557
          /\ pendingCode = "code6"
          /\ CodeInputVisible(page)
          /\ otpFetched' = TRUE
          /\ \E entered \in BOOLEAN :
                /\ op' = IF entered THEN "otp_type" ELSE "none"
                /\ OtpNextPoll(otpTyped \/ entered)
          /\ UNCHANGED otpClears
       \/ \* the code was typed and submitted (by the button, or on its own)
          /\ pendingCode = "code6"
          /\ CodeInputVisible(page)
          /\ otpFetched' = TRUE
          /\ otpTyped' = TRUE
          /\ op' = IF IsVisible(page, "submitButton")
                   THEN "otp_submit" ELSE "otp_type"
          /\ clearAgent2FACode
          /\ pc' = "otp_true"
          /\ UNCHANGED <<page, polls>>
    /\ UNCHANGED <<job, reports, shutdown, conn, sess, browser, challenge,
                   ctx, timeout, error, screenshot, loginState, notified,
                   credTypes, signIns, cookieOk, shotPublished, extracts>>

\* the exit after the loop, lines 571-572
OtpTimedOut ==
    /\ pc = "otp_poll"
    /\ polls > 0
    /\ op' = "none"
    /\ pc' = "otp_false"
    /\ UNCHANGED <<job, run, conn, sess, browser, page, challenge, wait, error,
                   store, hist>>

\* the error thrown when no login follows the OTP wait, per call site
OtpFailure(c, v) ==
    CASE c = "first" ->
           IF v.type = "email_sms_2fa"
           THEN "Invalid 2FA code - please try again"
           ELSE "2FA timeout - no code received"
      [] c = "authenticator" -> "Authenticator 2FA timeout"
      [] c = "post_captcha" -> "2FA failed after CAPTCHA"

\* the caller after pollAndEnter2FACode returned true: the delay, verifyLogin
\* and, in case 'email_sms_2fa', the re-classification (lines 977-983,
\* 1029-1045, 1056-1064)
AfterOtpEntered ==
    /\ pc = "otp_true"
    /\ op' = "none"
    /\ \E p \in ScenarioPages : page' = p
    /\ IF verifyLogin(page')
       THEN /\ pc' = "extract"
            /\ UNCHANGED <<challenge, error>>
       ELSE /\ challenge' = IF ctx = "first"
                            THEN detectChallengeType(page') ELSE challenge
            /\ Throw(OtpFailure(ctx, challenge'))
    /\ otpTyped' = FALSE
    /\ UNCHANGED <<job, reports, shutdown, conn, sess, browser, wait, store,
                   hist>>

\* the caller after pollAndEnter2FACode returned false
AfterOtpTimeout ==
    /\ pc = "otp_false"
    /\ op' = "none"
    /\ Throw(OtpFailure(ctx, NoVerdict))
    /\ otpTyped' = FALSE
    /\ UNCHANGED <<job, reports, shutdown, conn, sess, browser, page,
                   challenge, wait, store, hist>>

----------------------------------------------------------------------------
(* extractSessionAndComplete (part_000 728-764, worker.js 567-603) *)

\* updateAgentState('extracting_profile') and context.cookies()
\* (lines 729-736)
extractSessionAndComplete ==
    /\ pc = "extract"
    /\ op' = "none"
    /\ extracts' = extracts + 1
    /\ updateAgentState("extracting_profile")
    /\ \/ /\ Throw("browser error")
          /\ UNCHANGED jar
       \/ /\ \E j \in ContextJars : jar' = j
          /\ pc' = "extract_check"
          /\ UNCHANGED error
    /\ UNCHANGED <<job, run, conn, browser, page, challenge, wait, pendingCode,
                   screenshot, credTypes, signIns, cookieOk, otpFetched,
                   otpClears, shotPublished, validation>>

\* an extraction that calls itself again when the backend call fails
ExtractPublish_Retry ==
    /\ pc = "extract_check"
    /\ jar' = NoJar
    /\ IF jar["li_at"] = "absent"
       THEN /\ Throw("Failed to extract li_at session cookie")
            /\ op' = "none"
            /\ UNCHANGED <<loginState, notified>>
       ELSE \/ /\ loginState' = "completed"
               /\ notified' = "completed"
               /\ op' = "publish_session"
               /\ pc' = "finally"
               /\ UNCHANGED error
            \/ /\ pc' = "extract"
               /\ op' = "none"
               /\ notified' = "completed"
               /\ UNCHANGED <<error, loginState>>
    /\ UNCHANGED <<job, run, conn, browser, page, challenge, wait, pendingCode,
                   screenshot, hist, validation>>

\* an extraction without the test of line 738
ExtractPublish_NoCheck ==
    /\ pc = "extract_check"
    /\ jar' = NoJar
    /\ \/ /\ loginState' = "completed"
          /\ notified' = "completed"
          /\ op' = "publish_session"
          /\ pc' = "finally"
          /\ UNCHANGED error
       \/ /\ Throw("Edge function worker-update-agent failed")
          /\ op' = "none"
          /\ notified' = "completed"
          /\ UNCHANGED loginState
    /\ UNCHANGED <<job, run, conn, browser, page, challenge, wait, pendingCode,
                   screenshot, hist, validation>>

\* the li_at test and the backend call that publishes loginState
\* 'completed' together with sessionCookies (lines 738-763), a call that is
\* sent also when it fails; the cookies read are a local that is gone when
\* the function is left.  callEdgeFunction (lines 34-50) throws when the
\* request fails or is answered with an error status, and also when the
\* update was stored and the body of the answer cannot be read as JSON.
ExtractPublish ==
    /\ pc = "extract_check"
    /\ jar' = NoJar
    /\ IF jar["li_at"] = "absent"
       THEN /\ Throw("Failed to extract li_at session cookie")
            /\ op' = "none"
            /\ UNCHANGED <<loginState, notified>>
       ELSE \/ /\ loginState' = "completed"
               /\ notified' = "completed"
               /\ op' = "publish_session"
               /\ pc' = "finally"
               /\ UNCHANGED error
            \/ /\ Throw("Edge function worker-update-agent failed")
               /\ op' = "none"
               /\ notified' = "completed"
               /\ UNCHANGED loginState
            \/ /\ loginState' = "completed"
               /\ notified' = "completed"
               /\ op' = "publish_session"
               /\ Throw("Unexpected end of JSON input")
    /\ UNCHANGED <<job, run, conn, browser, page, challenge, wait, pendingCode,
                   screenshot, hist, validation>>

----------------------------------------------------------------------------
(* handleLinkedInLogin, worker.js 347-479 *)

\* the cookie restore, lines 350-372
WorkerCookieLogin ==
    /\ pc = "w_login"
    /\ IF ~action.cookie
       THEN /\ pc' = "w_goto_login"
            /\ op' = "none"
            /\ UNCHANGED <<page, error, cookieOk>>
       ELSE \/ /\ Throw("browser error")
               /\ op' = "none"
               /\ UNCHANGED <<page, cookieOk>>
            \/ /\ \E p \in ScenarioPages : page' = p
               /\ op' = "goto"
               /\ cookieOk' = verifyLogin(page')
               /\ pc' = IF verifyLogin(page') THEN "extract" ELSE "w_goto_login"
               /\ UNCHANGED error
    /\ UNCHANGED <<job, run, conn, sess, browser, challenge, wait, store,
                   credTypes, signIns, otpFetched, otpClears, shotPublished,
                   extracts>>

\* lines 374-397: navigate, the already-logged-in test on the URL, the
\* credentials check
WorkerGotoLogin ==
    /\ pc = "w_goto_login"
    /\ \/ /\ Throw("browser error")
          /\ op' = "none"
          /\ updateAgentState("navigating")
          /\ UNCHANGED page
       \/ /\ \E p \in ScenarioPages : page' = p
          /\ op' = "goto"
          /\ IF UrlFeed(page'.url)
             THEN /\ pc' = "extract"
                  /\ updateAgentState("navigating")
                  /\ UNCHANGED error
             ELSE /\ loginState' \in {"entering_credentials", "navigating",
                                      loginState}
                  /\ notified' = "entering_credentials"
                  /\ IF ~action.creds
                     THEN Throw("LinkedIn credentials not provided in action payload")
                     ELSE pc' = "enter_credentials" /\ UNCHANGED error
    /\ UNCHANGED <<job, run, conn, sess, browser, challenge, wait, pendingCode,
                   screenshot, hist>>

\* lines 417-430
WorkerCheckLoginFailed ==
    /\ pc = "w_check_failed"
    /\ op' = "none"
    /\ IF checkLoginFailed_worker(page) # "none"
       THEN /\ challenge' = Verdict(checkLoginFailed_worker(page), "none", "none")
            /\ updateAgentState(checkLoginFailed_worker(page))
            /\ Throw("Login failed")
       ELSE /\ pc' = "w_check_app"
            /\ UNCHANGED <<challenge, error, loginState, notified>>
    /\ UNCHANGED <<job, run, conn, sess, browser, page, wait, pendingCode,
                   screenshot, hist>>

\* lines 432-443
WorkerCheckAppApproval ==
    /\ pc = "w_check_app"
    /\ op' = "none"
    /\ IF checkAppApprovalRequired_worker(page)
       THEN /\ updateAgentState("awaiting_app_approval")
            /\ pc' = "push_wait"
            /\ ctx' = "w_app"
            /\ timeout' = WorkerWaitTimeout
            /\ polls' = 0
       ELSE /\ pc' = "w_check_2fa"
            /\ UNCHANGED <<wait, loginState, notified>>
    /\ UNCHANGED <<job, run, conn, sess, browser, page, challenge, error,
                   pendingCode, screenshot, hist>>

\* lines 445-457; check2FARequired reads the body text without a catch
WorkerCheck2FA ==
    /\ pc = "w_check_2fa"
    /\ op' = "none"
    /\ \/ /\ Throw("browser error")
          /\ UNCHANGED <<wait, loginState, notified>>
       \/ /\ check2FARequired_worker(page)
          /\ updateAgentState("awaiting_2fa")
          /\ pc' = "push_wait"
          /\ ctx' = "w_2fa"
          /\ timeout' = WorkerWaitTimeout
          /\ polls' = 0
          /\ UNCHANGED error
       \/ /\ ~check2FARequired_worker(page)
          /\ pc' = "w_verify"
          /\ UNCHANGED <<wait, error, loginState, notified>>
    /\ UNCHANGED <<job, run, conn, sess, browser, page, challenge, pendingCode,
                   screenshot, hist>>

\* lines 459-478
WorkerVerify ==
    /\ pc = "w_verify"
    /\ op' = "none"
    /\ IF verifyLogin(page)
       THEN /\ updateAgentState("verifying_session")
            /\ pc' = "extract"
            /\ UNCHANGED <<challenge, error>>
       ELSE IF checkLoginFailed_worker(page) # "none"
       THEN /\ challenge' = Verdict(checkLoginFailed_worker(page), "none", "none")
            /\ loginState' \in {checkLoginFailed_worker(page),
                                "verifying_session", loginState}
            /\ notified' = checkLoginFailed_worker(page)
            /\ Throw("Login failed after verification")
       ELSE /\ updateAgentState("verifying_session")
            /\ Throw("Login verification failed - not on expected page")
            /\ UNCHANGED challenge
    /\ UNCHANGED <<job, run, conn, sess, browser, page, wait, pendingCode,
                   screenshot, hist>>

----------------------------------------------------------------------------
(* The worker *)

\* the steps of the worker once an action has been handed to it
NextAttempt ==
    \/ MainPollNothing
    \/ MainReportCompleted
    \/ MainCatch
    \/ MainSleep
    \/ ProcessActionStart
    \/ ConnectAttempt
    \/ ConnectBackoff
    \/ ProcessActionSetup
    \/ ScriptedHandler
    \/ ProcessActionFinally
    \/ LoginStart
    \/ CookieLogin
    \/ GotoLogin
    \/ EnterCredentials
    \/ SignIn
    \/ Classify
    \/ CaptchaStart
    \/ CaptchaPoll
    \/ CaptchaTimedOut
    \/ AfterCaptcha
    \/ CaptchaFailed
    \/ PushPoll
    \/ PushTimedOut
    \/ AfterPush
    \/ OtpPoll
    \/ OtpTimedOut
    \/ AfterOtpEntered
    \/ AfterOtpTimeout
    \/ extractSessionAndComplete
    \/ ExtractPublish
    \/ WorkerCookieLogin
    \/ WorkerGotoLogin
    \/ WorkerCheckLoginFailed
    \/ WorkerCheckAppApproval
    \/ WorkerCheck2FA
    \/ WorkerVerify

Next ==
    \/ MainStart
    \/ MainPollAction
    \/ NextAttempt

Spec == Init /\ [][Next]_vars

\* The worker from the call of processAction for the last action of a run,
\* with or without a 2FA code already pending for the agent.
InitAttempt ==
    /\ rev \in {"part000", "worker"}
    /\ pc = "processAction"
    /\ page = BlankPage
    /\ action \in Actions
    /\ nActions = MaxActions
    /\ browser = "null"
    /\ challenge = NoVerdict
    /\ ctx = "none"
    /\ timeout = 0
    /\ polls = 0
    /\ error = "none"
    /\ pendingCode \in Codes
    /\ screenshot = "null"
    /\ loginState = "idle"
    /\ notified = "none"
    /\ op = "none"
    /\ credTypes = 0
    /\ signIns = 0
    /\ cookieOk = FALSE
    /\ otpFetched = FALSE
    /\ otpClears = 0
    /\ shotPublished = FALSE
    /\ extracts = 0
    /\ attempt = 0
    /\ lastError = NoError
    /\ delay = 0
    /\ jar = NoJar
    /\ validation = NoValidation
    /\ reports = <<>>
    /\ otpTyped = FALSE
    /\ shutdown = "running"

\* ... under its scheduling: one thread of control that takes its next step
\* whenever it has one (every call returns or fails, and time advances)
FairAttempt == InitAttempt /\ [][NextAttempt]_vars /\ WF_vars(NextAttempt)

----------------------------------------------------------------------------
(* The worker with its signal handlers (part_000 1289-1300, worker.js     *)
(* 811-822)                                                                *)

\* SIGTERM or SIGINT arrives: the handler starts and sendHeartbeat('offline')
\* issues its request; the handler then waits for the answer while the main
\* loop goes on with whatever it was waiting for.
ShutdownSignal ==
    /\ shutdown = "running"
    /\ shutdown' = "offline_sent"
    /\ UNCHANGED <<job, conn, sess, browser, page, challenge, wait, error,
                   store, hist, pc, op, reports, otpTyped>>

\* the heartbeat call has returned (answered or failed): process.exit(0)
ShutdownExit ==
    /\ shutdown = "offline_sent"
    /\ shutdown' = "exited"
    /\ UNCHANGED <<job, conn, sess, browser, page, challenge, wait, error,
                   store, hist, pc, op, reports, otpTyped>>

\* the main loop takes steps as long as the process has not exited
NextShutdown ==
    \/ shutdown # "exited" /\ Next
    \/ ShutdownSignal
    \/ ShutdownExit

SpecShutdown == Init /\ [][NextShutdown]_vars

----------------------------------------------------------------------------
(* The classifier on its own: every page over what it reads *)

InitClassify ==
    /\ rev = "part000"
    /\ pc = "c_input"
    /\ page \in ClassifierPages
    /\ Idle

ClassifyPage ==
    /\ pc = "c_input"
    /\ challenge' = detectChallengeType(page)
    /\ pc' = "c_done"
    /\ UNCHANGED <<job, run, conn, sess, browser, page, wait, error, store, op,
                   hist>>

NextClassify == ClassifyPage

SpecClassify == InitClassify /\ [][NextClassify]_vars

----------------------------------------------------------------------------
(* Session functions on their own: validation and extraction over every    *)
(* cookie jar, release over every handle                                   *)

InitSession ==
    /\ rev \in {"part000", "worker"}
    /\ pc \in {"v_input", "extract_check", "r_input"}
    /\ page = BlankPage
    /\ IdleWorker
    /\ browser \in {"null", "open", "closed"}
    /\ jar \in Jars

\* validateFullSession(context)
ValidateSession ==
    /\ pc = "v_input"
    /\ validation' = validateFullSession(jar)
    /\ pc' = "v_done"
    /\ UNCHANGED <<job, run, conn, jar, browser, page, challenge, wait, error,
                   store, op, hist>>

\* stopGoLoginProfile(browser), and the same call once more
ReleaseSession ==
    /\ pc \in {"r_input", "r_released"}
    /\ browser' = stopGoLoginProfile(browser)
    /\ \E closeOk \in BOOLEAN :
         error' = IF stopGoLoginProfileThrows(browser, closeOk)
                  THEN "close error"
                  ELSE error
    /\ pc' = IF pc = "r_input" THEN "r_released" ELSE "r_again"
    /\ UNCHANGED <<job, run, conn, sess, page, challenge, wait, store, op, hist>>

NextSession ==
    \/ ValidateSession
    \/ ExtractPublish
    \/ ReleaseSession

SpecSession == InitSession /\ [][NextSession]_vars

----------------------------------------------------------------------------
(* Properties *)

\* processAction has returned or thrown
ProcessActionLeft == pc \in {"report_completed", "catch", "sleep", "poll"}

\* steps that navigate, type, click or submit
PageOps == {"goto", "type", "click", "otp_type", "otp_submit"}

FatalVerdict == challenge.type \in {"invalid_credentials", "account_locked"}

\* positions inside a human-channel wait
WaitPcs == {"captcha", "captcha_loop", "push_wait", "otp_poll"}

\* the resolving step of a resolvable verdict
ResolvingPc(t) ==
    CASE t = "captcha" -> "captcha"
      [] t = "app_approval" -> "push_wait"
      [] t \in {"email_sms_2fa", "authenticator_2fa"} -> "otp_poll"
      [] OTHER -> "none"

HasCaptchaMarker(p) == IsVisible(p, "captchaIframe") \/ HasText(p, "captcha")

HasOtpMarker(p) ==
    HasText(p, "otp") \/ HasText(p, "auth") \/ IsVisible(p, "pinInput")

\* C1: once processAction has returned or thrown, a browser session that it
\* acquired has had close() invoked on it, whatever way the handler ended.
C1_SessionClosedOnExit == ProcessActionLeft => browser # "open"

\* C1 witness: a login whose CAPTCHA wait timed out has left processAction
\* with its session closed.
C1_Witness ==
    /\ pc = "catch"
    /\ error = "CAPTCHA timeout"
    /\ browser = "closed"

\* C2: a classification of InvalidCredentials or AccountLocked is made
\* together with the throw that fails the attempt (the attempt never goes on
\* to extraction or to a completed report), and no later step of the attempt
\* navigates, types, clicks or submits.
C2_RejectedStops ==
    [][ /\ FatalVerdict' =>
             error' # "none" /\ pc' \notin {"extract", "report_completed"}
        /\ FatalVerdict => op' \notin PageOps ]_vars

\* C2 witness: an attempt that submitted credentials, was classified as
\* rejected and has been reported failed.
C2_Witness ==
    /\ FatalVerdict
    /\ signIns = 1
    /\ pc = "sleep"
    /\ error # "none"

\* C3: for one polled action the credentials are typed at most once and the
\* sign-in button is clicked at most once.
C3_SubmittedAtMostOnce == credTypes <= 1 /\ signIns <= 1

\* C3 witness: an attempt failed after its sign-in click and the worker loop
\* is back at polling without a second submission.
C3_Witness ==
    /\ pc = "poll"
    /\ signIns = 1
    /\ error # "none"

\* C4 (as claimed): a wait is never entered on a page that the classifier
\* holds to be an unknown challenge, such as a generic checkpoint page with
\* no recognised marker.  At polls = 0 the page is still the classified one.
C4_UnknownNeverWaits ==
    (pc \in WaitPcs /\ polls = 0) =>
        detectChallengeType(page).type # "unknown_challenge"

\* C5: a page with a CAPTCHA marker and any OTP marker is classified Captcha,
\* whatever else it shows.
C5_CaptchaPreempts ==
    (pc = "c_done" /\ HasCaptchaMarker(page) /\ HasOtpMarker(page)) =>
        challenge.type = "captcha"

\* C5 witness: a classified page with a CAPTCHA phrase, every OTP marker and
\* a rejected-password phrase.
C5_Witness ==
    /\ pc = "c_done"
    /\ {"captcha", "otp", "auth", "invalid"} \subseteq page.text
    /\ IsVisible(page, "pinInput")
    /\ ~IsVisible(page, "captchaIframe")
    /\ challenge.type = "captcha"

\* C6: after a verified cookie restore the attempt is at extraction or past
\* the handler, and nothing was typed into the credential fields and the
\* sign-in button was not clicked.
C6_CookieRestoreSkipsCredentials ==
    cookieOk =>
        /\ credTypes = 0
        /\ signIns = 0
        /\ pc \in {"extract", "extract_check", "finally"} \/ ProcessActionLeft

\* C6 witness: a cookie restore that ended in a completed action.
C6_Witness ==
    /\ cookieOk
    /\ pc = "report_completed"

\* C7 (as claimed): a run of pollAndEnter2FACode that entered a code has
\* called the clear exactly once, and a run that returns false leaves no
\* pending code that it received.
C7_OtpCodeCleared ==
    /\ (pc = "otp_true" /\ op \in {"otp_type", "otp_submit"}) => otpClears = 1
    /\ (pc = "otp_false" /\ otpFetched) => pendingCode = "none"

\* C8: when waitForCaptchaSolved has returned, true or false, the stored
\* screenshot is null.
C8_ScreenshotClearedOnReturn ==
    pc \in {"captcha_true", "captcha_false"} => screenshot = "null"

\* C8 witness: the relay published an image, timed out and returned false
\* with the image cleared.
C8_Witness ==
    /\ pc = "captcha_false"
    /\ shotPublished
    /\ screenshot = "null"

\* C9 (as claimed): once the attempt is over, no screenshot that it published
\* and no pending code that it received is left in the external store.
C9_NoStaleChannelRecords ==
    (pc = "sleep" /\ action.type = "linkedin_login") =>
        /\ shotPublished => screenshot = "null"
        /\ otpFetched => pendingCode = "none"

\* C10 (as claimed): when a resolving step of part_000 has succeeded and the
\* page then shows, unverified, a resolvable challenge, the attempt enters
\* the resolving step of that challenge.
C10_ReclassifyAndDispatch ==
    [][ ( /\ rev = "part000"
          /\ pc \in {"captcha_true", "push_true", "otp_true"}
          /\ ~verifyLogin(page')
          /\ ResolvingPc(detectChallengeType(page').type) # "none" )
        => pc' = ResolvingPc(detectChallengeType(page').type) ]_vars

\* C11 (as claimed): extractSessionAndComplete is entered only on a page for
\* which verifyLogin holds, after a successful push-approval wait too.
C11_ExtractOnlyWhenVerified == pc = "extract" => verifyLogin(page)

\* C12: in one attempt extractSessionAndComplete is called at most once, and a
\* login action that is reported completed has called it exactly once.
C12_ExtractedOnce ==
    /\ extracts <= 1
    /\ (pc = "report_completed" /\ action.type = "linkedin_login") =>
           extracts = 1

\* C12 witness: a login that went through the sign-in click and one
\* extraction is reported completed.
C12_Witness ==
    /\ pc = "report_completed"
    /\ action.type = "linkedin_login"
    /\ signIns = 1
    /\ extracts = 1

\* C13: when the li_at cookie is absent from the cookies read, whatever the
\* other three cookies are, the extraction throws and makes no backend call
\* that publishes 'completed' and the session cookies.
C13_NoPrimaryNoSession ==
    [][ (pc = "extract_check" /\ jar["li_at"] = "absent") =>
            /\ pc' = "finally"
            /\ error' = "Failed to extract li_at session cookie"
            /\ op' # "publish_session"
            /\ loginState' = loginState ]_vars

\* C13 witness: the extraction has thrown for its missing li_at cookie.
C13_Witness ==
    /\ pc = "finally"
    /\ error = "Failed to extract li_at session cookie"
    /\ loginState # "completed"

\* C14: for a jar with a non-empty li_at, validateFullSession is valid and its
\* confidence is the number of the four cookies that have a value, over 4:
\* at least 0.25, at most 1.0, and 1.0 exactly when all four have one.
C14_ConfidenceIsFraction ==
    (pc = "v_done" /\ HasValue(jar, "li_at")) =>
        /\ validation.valid
        /\ validation.confidence * 4 =
               Cardinality({c \in CookieNames : HasValue(jar, c)}) * 100
        /\ validation.confidence >= 25
        /\ validation.confidence <= 100
        /\ validation.confidence = 100 <=>
               \A c \in CookieNames : HasValue(jar, c)

\* C14 witness: a validated jar that holds the primary token only.
C14_Witness ==
    /\ pc = "v_done"
    /\ HasValue(jar, "li_at")
    /\ \A c \in CookieNames \ {"li_at"} : jar[c] = "absent"
    /\ validation.valid
    /\ validation.confidence = 25

\* the results a wait hands back on timeout
FalsePcs == {"push_false", "otp_false", "captcha_false"}

\* C15: startGoLoginProfile makes at most MaxRetries (3) connection attempts:
\* a backoff towards a further attempt is entered only after a transient
\* failure of an attempt before the last, a transient failure before the
\* last attempt does not end the acquisition, and a transient failure of the
\* last attempt is rethrown.
C15_AtMostThreeAttempts ==
    /\ attempt <= MaxRetries
    /\ pc = "backoff" => (attempt < MaxRetries /\ "transient" \in lastError)
    /\ (pc = "finally" /\ attempt > 0 /\ lastError = {"transient"}) =>
           (attempt = MaxRetries /\ error = ConnectionError)

\* C15 witness: the third attempt failed with a transient error and the
\* acquisition has thrown it.
C15_Witness ==
    /\ pc = "finally"
    /\ attempt = 3
    /\ lastError = {"transient"}
    /\ error = ConnectionError
    /\ browser = "null"

\* C16: a failure that matches 403 or 404 ends the acquisition at once with
\* the access-denied or not-found error: no backoff and no further attempt,
\* whatever the attempt number and also when it matches a transient pattern.
C16_ConfigErrorsNotRetried ==
    /\ pc = "backoff" => lastError \cap {"403", "404"} = {}
    /\ (attempt > 0 /\ lastError \cap {"403", "404"} # {}) =>
           /\ pc = "finally"
           /\ delay = 0
           /\ error = IF "403" \in lastError
                      THEN "GoLogin profile access denied (403)"
                      ELSE "GoLogin profile not found (404)"

\* C16 witness: the second attempt failed with an error that matches 403 and
\* a transient pattern, and the acquisition has thrown access denied.
C16_Witness ==
    /\ pc = "finally"
    /\ attempt = 2
    /\ lastError = {"403", "transient"}
    /\ error = "GoLogin profile access denied (403)"

\* C17: stopGoLoginProfile never throws to its caller, whether close()
\* succeeds or fails, and on a null handle or an already released session it
\* changes nothing.
C17_ReleaseNeverThrows ==
    [][ (pc \in {"r_input", "r_released"}) =>
            /\ error' = error
            /\ browser \in {"null", "closed"} => browser' = browser ]_vars

\* C17 witness: a session released twice, with no error raised.
C17_Witness ==
    /\ pc = "r_again"
    /\ browser = "closed"
    /\ error = "none"

\* C18 (as claimed): a wait that is left unresolved hands false to the
\* orchestrator instead of throwing, and the orchestrator's next step after a
\* false is the throw that fails the attempt.
C18_TimeoutReturnsFalse ==
    [][ /\ pc \in FalsePcs => (pc' = "finally" /\ error' # "none")
        /\ (pc = "push_wait" /\ ~ApprovalCompleted(page) /\ pc' # pc) =>
               pc' = "push_false"
        /\ (pc = "otp_poll" /\ pc' \notin {pc, "otp_true"}) =>
               pc' = "otp_false"
        /\ ((pc = "captcha_loop" /\ ~CaptchaGone(page) /\ pc' # pc) =>
               pc' = "captcha_false") ]_vars

\* C19 (as claimed): every wait the orchestrator starts runs with a timeout
\* of 300 s.
C19_WaitsBoundedBy300s ==
    pc \in {"push_wait", "otp_poll", "captcha_loop"} => timeout = 300000

\* C20: every login attempt that processAction takes up reaches a terminal
\* outcome: processAction returns (the action is reported completed) or
\* throws (the action is reported failed).
C20_AttemptTerminates ==
    (pc = "processAction" /\ action.type = "linkedin_login")
        ~> (pc \in {"report_completed", "catch"})

\* C20 witness: an attempt whose OTP wait used up its polls has ended in the
\* failure report.
C20_Witness ==
    /\ pc = "catch"
    /\ action.type = "linkedin_login"
    /\ polls = MaxPolls
    /\ challenge.type = "authenticator_2fa"
    /\ error # "none"

\* the errors thrown by the rejection branches: part_000 lines 937 and 943,
\* worker.js lines 429 and 471
RejectionErrors ==
    {"Invalid credentials", "Account locked", "Login failed",
     "Login failed after verification"}

\* C21 (as claimed): when main's catch block handles an attempt that was
\* rejected for invalid credentials or a locked account, the login state the
\* backend holds for the agent afterwards is that category, never the generic
\* 'failed'.
C21_RejectionCategoryKept ==
    [][ (pc = "catch" /\ error \in RejectionErrors)
        => loginState' \in {challenge.type, loginState} ]_vars

\* C22: a login action whose payload lacks the email or the password never
\* types into the login form and never clicks sign-in; it ends in error unless
\* the cookie restore or the landing page led to an extraction.
C22_MissingCredentialsFailBeforeTyping ==
    (action.type = "linkedin_login" /\ ~action.creds) =>
        /\ credTypes = 0
        /\ signIns = 0
        /\ pc \notin {"enter_credentials", "sign_in"}
        /\ (pc \in {"finally", "report_completed"} /\ extracts = 0)
               => error # "none"

\* C22 witness: a cookie was supplied, its verification failed, the login page
\* was not authenticated, and the attempt failed on the missing credentials.
C22_Witness ==
    /\ pc = "catch"
    /\ action.cookie
    /\ ~action.creds
    /\ ~cookieOk
    /\ error \in {"Missing email or password for login",
                  "LinkedIn credentials not provided in action payload"}
    /\ credTypes = 0
    /\ signIns = 0

\* C23: a supplied session cookie that does not verify after its injection
\* does not fail the attempt: the next step is the navigation to the login
\* page, and from an unauthenticated login page with credentials in the
\* payload the attempt goes on to the credential entry.
C23_CookieFailureFallsThrough ==
    [][ /\ ( /\ pc \in {"cookie", "w_login"}
             /\ action.cookie
             /\ op' = "goto"
             /\ ~verifyLogin(page') )
           => (pc' \in {"goto_login", "w_goto_login"} /\ error' = "none")
        /\ ( /\ pc \in {"goto_login", "w_goto_login"}
             /\ action.cookie
             /\ action.creds
             /\ op' = "goto"
             /\ ~(IF rev = "part000" THEN verifyLogin(page')
                                     ELSE UrlFeed(page'.url)) )
           => (pc' = "enter_credentials" /\ error' = "none") ]_vars

\* C23 witness: the credentials have been typed in an attempt whose cookie
\* was supplied and did not verify.
C23_Witness ==
    /\ action.cookie
    /\ ~cookieOk
    /\ credTypes = 1
    /\ pc = "sign_in"

\* C24: when the first classification after the submission is 'none', the
\* handler only re-checks verifyLogin: a verified page leads to the
\* extraction (and a completed report follows one extraction), an unverified
\* page to the 'unknown state' error; no wait is entered and nothing is
\* navigated, typed or submitted any more.
C24_NoneRechecksOnly ==
    (challenge.type = "none" /\ ctx = "none") =>
        /\ pc \in {"extract", "extract_check", "finally", "catch",
                   "report_completed", "sleep", "poll"}
        /\ op \notin PageOps
        /\ polls = 0
        /\ signIns = 1
        /\ pc \in {"extract", "extract_check"} => verifyLogin(page)
        /\ (pc = "finally" /\ ~verifyLogin(page))
               => error = "Login failed - ended in unknown state"
        /\ pc = "report_completed" => extracts = 1

\* C24 witness: the page after the sign-in click classified as 'none' and did
\* not verify, and the attempt has ended in the unknown-state error.
C24_Witness ==
    /\ pc = "finally"
    /\ challenge.type = "none"
    /\ ctx = "none"
    /\ ~verifyLogin(page)
    /\ error = "Login failed - ended in unknown state"

\* a marker of rules 1 to 4 (lines 249-317)
HasBlockingMarker(p) ==
    \/ HasCaptchaMarker(p)
    \/ HasText(p, "invalid")
    \/ HasText(p, "locked")
    \/ HasText(p, "app")

\* C25 (as claimed): a page with a visible code input field or a code-sent
\* phrase, and no marker of rules 1 to 4, is classified email_sms_2fa,
\* whatever its URL and with an authenticator phrase too.
C25_OtpBeforeAuthenticator ==
    ( /\ pc = "c_done"
      /\ IsVisible(page, "pinInput") \/ HasText(page, "otp")
      /\ ~HasBlockingMarker(page) )
    => challenge.type = "email_sms_2fa"

\* C25 (amended): a page with a code-sent phrase and no marker of rules 1 to
\* 4 is classified email_sms_2fa on every URL, with an authenticator phrase
\* too; a visible code input field gives email_sms_2fa on a checkpoint,
\* challenge or two-step URL when no phrase of rules 1 to 6 matches.
C25_CodePhraseBeforeAuthenticator ==
    (pc = "c_done" /\ ~HasBlockingMarker(page)) =>
        /\ HasText(page, "otp") => challenge.type = "email_sms_2fa"
        /\ ( /\ IsVisible(page, "pinInput")
             /\ OnCheckpointUrl(page)
             /\ ~HasText(page, "auth") )
           => challenge.type = "email_sms_2fa"

\* C25 witness: a classified page off the checkpoint URLs with a code-sent
\* phrase and an authenticator phrase.
C25_Witness ==
    /\ pc = "c_done"
    /\ page.url = "other"
    /\ page.text = {"otp", "auth"}
    /\ page.visible = {}
    /\ challenge.type = "email_sms_2fa"

\* a checkpoint page on which no phrase list and no code input matches
GenericCheckpoint(p) ==
    /\ OnCheckpointUrl(p)
    /\ ~HasBlockingMarker(p)
    /\ ~HasOtpMarker(p)
    /\ ~HasText(p, "confirm")

\* C26 (as claimed): the wait for a push approval is entered from a generic
\* checkpoint page only when the approval-confirmation button is visible on
\* it, never because the page has no code input.
C26_PushOnlyWithApprovalControl ==
    ( /\ pc = "push_wait"
      /\ polls = 0
      /\ ctx \in {"first", "post_captcha", "w_app"}
      /\ GenericCheckpoint(page) )
    => IsVisible(page, "approveButton")

\* C27 (as claimed): a page off the checkpoint URLs with no marker of rules 1
\* to 6 is classified none, and unknown_challenge is the verdict of pages on
\* a checkpoint URL only.
C27_NoneOffCheckpoint ==
    pc = "c_done" =>
        /\ ( /\ ~OnCheckpointUrl(page)
             /\ ~HasBlockingMarker(page)
             /\ ~HasOtpMarker(page) )
           => challenge.type = "none"
        /\ challenge.type = "unknown_challenge" => OnCheckpointUrl(page)

\* C27 (amended): a page off the checkpoint URLs with no marker of rules 1 to
\* 6 and without the security-check phrase of rule 8 is classified none;
\* unknown_challenge is the verdict of a checkpoint page without code input
\* and approval button, or of a security-check page without a send-code
\* button.
C27_NoneOffCheckpointAndSecurityCheck ==
    pc = "c_done" =>
        /\ ( /\ ~OnCheckpointUrl(page)
             /\ ~HasBlockingMarker(page)
             /\ ~HasText(page, "otp")
             /\ ~HasText(page, "auth")
             /\ ~HasText(page, "confirm") )
           => challenge.type = "none"
        /\ challenge.type = "unknown_challenge" =>
               \/ /\ OnCheckpointUrl(page)
                  /\ ~IsVisible(page, "pinInput")
                  /\ ~IsVisible(page, "approveButton")
               \/ /\ ~OnCheckpointUrl(page)
                  /\ HasText(page, "confirm")
                  /\ ~IsVisible(page, "sendButton")

\* C27 witness: a classified login page that shows a code input and a send
\* button, with no phrase of rules 1 to 6 and no security-check phrase.
C27_Witness ==
    /\ pc = "c_done"
    /\ page.url = "login"
    /\ page.text = {"phone"}
    /\ page.visible = {"pinInput", "sendButton"}
    /\ challenge.type = "none"

\* the loginState values that name a resolving state
AwaitingStates ==
    {"awaiting_captcha", "awaiting_app_approval", "awaiting_2fa"}

\* C28 (as claimed): every state of a login attempt has its status
\* notification sent before the next state is entered.  No page is opened,
\* typed into or clicked before a first notification (the cookie restore
\* included); the credential entry runs under 'entering_credentials' and each
\* wait under its 'awaiting' state; the re-verification that follows a wait
\* no longer runs under the wait's name; extraction runs under
\* 'extracting_profile'; a completed login has sent 'completed', a rejected
\* one its category and a failed one 'failed'.
C28_EveryStateNotified ==
    action.type = "linkedin_login" =>
        /\ op \in {"goto", "type", "click"} => notified # "none"
        /\ op \in {"type", "click"} => notified = "entering_credentials"
        /\ pc = "captcha_loop" => notified = "awaiting_captcha"
        /\ pc = "push_wait" => notified \in AwaitingStates
        /\ pc = "otp_poll" => notified = "awaiting_2fa"
        /\ (pc = "extract" /\ ctx # "none") => notified \notin AwaitingStates
        /\ pc = "extract_check" => notified = "extracting_profile"
        /\ pc = "report_completed" => notified = "completed"
        /\ (pc = "finally" /\ error \in RejectionErrors)
               => notified \in {"invalid_credentials", "account_locked"}
        /\ (pc = "sleep" /\ error # "none") => notified = "failed"

\* C29 (as claimed): the wait after failed attempt k is 2 s doubled k-1
\* times (2 s after the first failure, 4 s after the second), and no wait
\* follows the final attempt.
C29_BackoffFromTwoSeconds ==
    /\ pc = "backoff" =>
           /\ attempt < MaxRetries
           /\ delay = 2000 * (2 ^ (attempt - 1))
    /\ pc # "backoff" => delay = 0

\* C29 (amended): the wait after failed attempt k is 4 s doubled k-1 times
\* (4 s after the first failure, 8 s after the second), and no wait follows
\* the final attempt.
C29_BackoffFromFourSeconds ==
    /\ pc = "backoff" =>
           /\ attempt \in 1..(MaxRetries - 1)
           /\ delay = 4000 * (2 ^ (attempt - 1))
    /\ pc # "backoff" => delay = 0

\* C29 witness: the connector waits 8 s after its second failed attempt.
C29_Witness ==
    /\ pc = "backoff"
    /\ attempt = 2
    /\ delay = 8000
    /\ "transient" \in lastError

\* C30 (as claimed): an attempt whose last classification, the first one or
\* the one after a solved CAPTCHA or a submitted code, gave
\* invalid_credentials or account_locked ends with the rejection error of
\* that category, and its last status notification names the category.
C30_FatalVerdictAlwaysRejects ==
    (pc = "finally" /\ FatalVerdict) =>
        /\ error \in RejectionErrors
        /\ notified = challenge.type

\* C31: a failure of close() in processAction's finally block never changes
\* the outcome reported for the action: a handler that returned is reported
\* completed, a handler that threw is reported failed with its own error,
\* and exactly that report follows.
C31_CloseFailureKeepsOutcome ==
    [][ /\ (pc = "finally") =>
              /\ error' = error
              /\ pc' = IF error = "none" THEN "report_completed" ELSE "catch"
        /\ (pc \in {"report_completed", "catch"}
              /\ op \in {"close", "close_failed"}) =>
              reports' = << IF error = "none" THEN "completed" ELSE "failed" >>
      ]_vars

\* C31 witness: a login that succeeded is about to be reported completed
\* after close() failed.
C31_Witness ==
    /\ pc = "report_completed"
    /\ op = "close_failed"
    /\ browser = "closed"
    /\ error = "none"
    /\ extracts = 1
    /\ loginState = "completed"

\* C32 (as claimed): within one OTP poll a pending code record is typed into
\* the page at most once: once it has been typed, no later iteration types
\* the same record again, also when a browser call failed after the typing.
C32_CodeTypedAtMostOnce ==
    [][ (pc = "otp_poll" /\ otpTyped /\ pendingCode = "code6") =>
            op' \notin {"otp_type", "otp_submit"} ]_vars

\* C33: the worker holds at most one open browser session: a session is
\* opened only by the connect step of an action that holds none, the next
\* action is taken up only after the session of the previous one has been
\* released, and page operations run only inside the one open session.
C33_OneSessionAtATime ==
    [][ /\ (browser' = "open" /\ browser # "open") =>
              (pc = "connect" /\ browser = "null")
        /\ (pc = "poll" /\ pc' = "processAction") =>
              browser \in {"null", "closed"}
        /\ (op' \in PageOps \/ op' = "publish_session") =>
              (browser = "open" /\ browser' = "open"
               /\ action' = action /\ action # NoAction) ]_vars

\* C33 witness: the second action of a run has its session open after the
\* first one's session was opened and released.
C33_Witness ==
    /\ nActions = 2
    /\ browser = "open"
    /\ pc = "setup"
    /\ loginState = "completed"

\* the errors that report a timeout of a human-channel wait: part_000 lines
\* 991, 1003, 1018, 1045 and 1064, worker.js lines 441 and 455
TimeoutErrors ==
    {"App approval timeout after CAPTCHA", "CAPTCHA timeout",
     "App approval timeout", "2FA timeout - no code received",
     "Authenticator 2FA timeout", "LinkedIn app approval timed out",
     "2FA verification timed out"}

\* C34 (as claimed): an attempt fails with a timeout error only when the
\* human-channel wait returned false; after the OTP wait returned true a
\* login that is still not verified is not reported as a timeout.
C34_TimeoutOnlyAfterFalse ==
    [][ (error = "none" /\ error' \in TimeoutErrors) => pc \in FalsePcs ]_vars

\* C35: every action that was polled leads to exactly one result report:
\* never two, the one report is there once main has left its try/catch, and
\* every action that processAction takes up gets its report, whatever the
\* path (handler success, handler exception, missing profile reference,
\* connection failure, unknown action type).
C35_ExactlyOneReport ==
    /\ [](Len(reports) <= 1)
    /\ []((pc \in {"sleep", "poll"}) => Len(reports) = 1)
    /\ [](Len(reports) = 1 => pc \in {"sleep", "poll"})
    /\ (pc = "processAction") ~> (Len(reports) = 1)

\* C35 witness: an action of an unknown type has been reported failed, once.
C35_Witness ==
    /\ pc = "sleep"
    /\ action.type = "unknown_type"
    /\ reports = <<"failed">>
    /\ error = "Unknown action type"
    /\ browser = "closed"

\* C36 (as claimed): for one login attempt the backend never receives both
\* the success state and a failure: once the update that publishes
\* 'completed' with the session cookies has been delivered, the action is
\* not reported failed.
C36_CompletedNeverFailed ==
    []((op = "publish_session") => [](reports # <<"failed">>))

\* C37 (as claimed): every session published with loginState 'completed'
\* has a non-empty primary token: the extraction does not succeed with an
\* li_at cookie that is present with an empty value.
C37_PublishedTokenNonEmpty ==
    [][ (pc = "extract_check" /\ op' = "publish_session") =>
            HasValue(jar, "li_at") ]_vars

\* C38 (as claimed): once the signal handler has sent the 'offline'
\* heartbeat, the worker sends nothing else to the backend: no 'polling'
\* heartbeat and poll, no state update and no result report.
C38_OfflineIsLast ==
    [][ (shutdown = "offline_sent") =>
            /\ ~(pc = "poll" /\ pc' # "poll")
            /\ reports' = reports
            /\ notified' = notified ]_vars

\* C39: without a shutdown signal the worker loop never stops: whatever the
\* outcome of an action and of the backend calls, the worker sends a poll
\* request again and again.
C39_LoopNeverStops ==
    []<><<pc = "poll" /\ pc' = "sleep" /\ shutdown = "running">>_vars

\* C39 witness: after an action that failed on its connection, the worker
\* is about to poll again.
C39_Witness ==
    /\ pc = "poll"
    /\ shutdown = "running"
    /\ reports = <<"failed">>
    /\ error = ConnectionError
    /\ browser = "null"

\* C40: a connection failure that matches neither 403 / 404 nor a transient
\* pattern is rethrown after that one attempt, on any attempt number: no
\* backoff wait and no further attempt follow it.
C40_UnclassifiedNotRetried ==
    [][ (pc = "connect" /\ lastError' = {}) =>
            /\ pc' = "finally"
            /\ error' = ConnectionError
            /\ delay' = 0
            /\ attempt' = attempt
            /\ browser' = browser ]_vars

\* C40 witness: the second attempt failed with an error that matches no
\* pattern and the acquisition has rethrown it.
C40_Witness ==
    /\ pc = "finally"
    /\ attempt = 2
    /\ lastError = {}
    /\ error = ConnectionError
    /\ delay = 0
    /\ browser = "null"

=============================================================================
